---- MODULE Spec2Model ----
(***************************************************************************)
(* Job-state tracking and database-session lifecycle of the batch          *)
(* detection pipeline: exception_handler (baas_utils/error_handling.py),   *)
(* DBConfigSQLAlchemy (baas_utils/database_handler.py) and the database    *)
(* bookkeeping of run (val.py).                                            *)
(*                                                                         *)
(* One worker process calls the decorated run once, against a store that   *)
(* earlier runs may have filled.  External collaborators (the az CLI, the  *)
(* database, the model, the file system) are nondeterministic: each call   *)
(* either succeeds or raises one of the errors it can raise.               *)
(*                                                                         *)
(* Spec follows that single invocation in full.  SpecApi is a client that  *)
(* calls create_connection, close_connection and managed_session on one    *)
(* DBConfigSQLAlchemy in any order; SpecWorkers is two workers that run concurrently and      *)
(* repeatedly on the same store; SpecCallers is two threads that enter     *)
(* managed_session on one shared DBConfigSQLAlchemy; SpecLegacy is a       *)
(* client of the module-level create_connection and close_connection of    *)
(* database/database_handler.py.                                           *)
(***************************************************************************)
EXTENDS Integers, Sequences, FiniteSets, TLC

\* ---------------------------------------------------------------- bounds
MaxNow == 2           \* clock ticks (minutes) that may pass
MaxDet == 2           \* detections returned for one image
MaxBatch == 2         \* largest batch_size tried

\* ------------------------------------------------------ program constants
token_renewal_margin == 5     \* timedelta(minutes=5)

NoErr == <<"none", "none">>
Pending == <<"pending", "none">>
Result == <<"result", "none">>

\* an image path is <<upload-date folder, file name>>; the files of the input
\* folder in the order the dataloader lists them
InputFolder == << <<1, "img1.jpg">>, <<1, "img2.jpg">> >>
\* az tokens expire this many minutes after they are issued
Lifetimes == {4, 6}
\* x1, y1, x2, y2 of a prediction, after int()
Boxes == {<<0, 0, 1, 1>>, <<0, 0, 0, 1>>}
ClassIds == {0}
Detections == [cls : ClassIds, xyxy : Boxes]

\* -------------------------------------------------------------- helpers
RECURSIVE SeqsUpTo(_, _)
SeqsUpTo(S, n) ==
    IF n = 0 THEN {<<>>}
    ELSE LET shorter == SeqsUpTo(S, n - 1)
         IN  shorter \cup {Append(s, x) : s \in {t \in shorter : Len(t) = n - 1}, x \in S}

Range(s) == {s[i] : i \in 1..Len(s)}

Min(a, b) == IF a < b THEN a ELSE b

\* the datasets a run may be given: some of the files of the input folder
Datasets == {SelectSeq(InputFolder, LAMBDA p : p \in S) : S \in SUBSET Range(InputFolder)}

\* the batch sizes tried on a dataset: a batch size above the number of files
\* gives the batches of the batch size equal to it
BatchSizes(d) == 1..(IF Len(d) <= 1 THEN 1 ELSE Min(MaxBatch, Len(d)))

\* ------------------------------------------------------------ exceptions
\* An exception object is <<class, origin>>: two exceptions of the same class
\* raised at different places are different objects.
ErrClass(e) == e[1]

\* isinstance(e, SQLAlchemyError)
IsSQLAlchemyError(e) == ErrClass(e) \in {"IntegrityError", "OperationalError", "ArgumentError"}

\* str(e)
str(e) ==
    CASE ErrClass(e) = "CredentialsValueError" -> "Please provide database credentials."
      [] ErrClass(e) = "ImwriteException" -> "Could not write image"
      [] OTHER -> ErrClass(e)

\* --------------------------------------------------------------- state
VARIABLES
    status_tbl,     \* image_processing_status: set of committed rows
    det_tbl,        \* detection_information: sequence of committed rows (id = index)
    batch_tbl,      \* batch_run_information: sequence of committed rows
    now,            \* datetime.now(), in minutes
    tokens,         \* number of tokens the identity backend has issued
    pc,             \* position of the worker in wrapper / run
    kw,             \* kwargs of the current invocation
    db_config,      \* the two DBConfigSQLAlchemy objects: of run, of the wrapper
    sess,           \* the session of the unit of work in progress
    site,           \* which with-block of managed_session is in progress
    ms,             \* position inside managed_session
    err,            \* exception in flight
    job_err,        \* exception e caught by wrapper
    observed,       \* what the caller of the wrapped run gets
    processed_images, \* result of the completed-work query
    image_files,    \* files returned by create_dataloader
    batch,          \* paths of the batch in progress
    done_n,         \* number of image_files already consumed by earlier batches
    preds,          \* predictions of the batch in progress, per path
    si,             \* index in the batch
    di,             \* index in the predictions of image si
    neg_todo,       \* false_paths still to record
    trace,          \* what happened in this invocation (observation only)
    api_calls,      \* calls a client made on one DBConfigSQLAlchemy, with their outcome
    workers,        \* the worker processes that run concurrently on the same store
    callers,        \* the threads that share one DBConfigSQLAlchemy
    legacy          \* the client of the module-level functions of src/database

vars == <<status_tbl, det_tbl, batch_tbl, now, tokens, pc, kw, db_config, sess, site, ms,
          err, job_err, observed, processed_images, image_files, batch, done_n, preds, si, di,
          neg_todo, trace, api_calls, workers, callers, legacy>>

\* the state of the other scenarios (SpecApi, SpecWorkers, SpecCallers, SpecLegacy)
ext == <<api_calls, workers, callers, legacy>>

store == <<status_tbl, det_tbl, batch_tbl>>
loopv == <<batch, done_n, preds, si, di, neg_todo>>

\* DBConfigSQLAlchemy.__init__
\* None is <<>>, a value v is <<v>>
NewDBConfig ==
    [engine |-> <<>>, session_maker |-> <<>>, access_token |-> <<>>,
     token_expiration_time |-> <<>>]

\* a session: its pending (unflushed) operations and the calls made on it;
\* for observation, site is the with-block it serves, ops is everything the body handed to the session, before
\* the tables as they were when the session was obtained, body_err the
\* exception that ended the with-block and exit_err the one managed_session
\* let out
NoSession == [obtained |-> FALSE, site |-> "none", open |-> FALSE, pending |-> <<>>, commits |-> 0,
              committed |-> FALSE, rollbacks |-> 0, closes |-> 0, ops |-> <<>>,
              before |-> <<{}, <<>>, <<>>>>, body_err |-> NoErr, exit_err |-> NoErr]

NoKw == [skip_evaluation |-> FALSE, save_blurred_image |-> FALSE, creds |-> FALSE,
         customer_name |-> "acme", weights |-> "str", batch_size |-> 1, data |-> <<>>,
         labels |-> {}, run_id |-> 0]

NoTrace == [work |-> FALSE,        \* the job has started work (model loading onwards)
            \* the last entry of managed_session: the token had expired, the
            \* renewal calls made, those that returned normally
            entry |-> [expired |-> FALSE, renew_calls |-> 0, renew_ok |-> 0],
            audit_adds |-> <<>>,   \* rows given to session.add by wrapper
            claimed |-> {},        \* paths claimed by the run
            inferred |-> <<>>,     \* <<path, predictions>> of the images inferred, in order
            handled |-> {},        \* paths whose batch has been fully handled
            stats |-> 0,           \* len(stats): the tuples appended for the metrics
            open |-> 0]            \* sessions obtained and not yet closed

\* rows that earlier runs, of this customer or of another one, may have left
EarlierRows ==
    {[customer |-> "acme", date |-> p[1], filename |-> p[2], status |-> st] :
        p \in Range(InputFolder), st \in {"inprogress", "processed"}}
    \cup {[customer |-> "other", date |-> 1, filename |-> "img1.jpg", status |-> "processed"]}

InitialStatusTables ==
    {T \in SUBSET EarlierRows :
        \A r, q \in T : (r.customer = q.customer /\ r.date = q.date /\ r.filename = q.filename)
                            => r = q}

\* the worker processes of SpecWorkers
Workers == {1, 2}

\* a worker that has not started: its position in run, the runs it has
\* started, its dataset, batch size and save_blurred_image, the result of its
\* query, the files of its dataloader, the operations pending in its session,
\* the status table as it was when its claim block ran, the images the
\* dataloader has delivered, the units of work of the batch still to do, the
\* exception that ended it
NewWorker ==
    [pc |-> "idle", runs |-> 0, data |-> <<>>, batch_size |-> 1, save_blurred_image |-> FALSE,
     processed_images |-> {}, image_files |-> <<>>,
     pending |-> <<>>, seen |-> {}, done_n |-> 0, todo |-> <<>>, err |-> NoErr]

\* the threads of SpecCallers
Callers == {1, 2}

\* a thread that has not entered managed_session: its position, the times it
\* has entered, the renewal calls it has made, the exception that ended it
NewCaller == [pc |-> "idle", entries |-> 0, renew_calls |-> 0, err |-> NoErr]

\* a client that holds no engine and no session yet (None is <<>>), and the
\* calls it has made
NewLegacy == [engine |-> <<>>, session |-> <<>>, calls |-> <<>>]

\* everything but the status table and the position of the process
Fresh ==
    /\ det_tbl = <<>>
    /\ batch_tbl = <<>>
    /\ now = 0
    /\ tokens = 0
    /\ kw = NoKw
    /\ api_calls = <<>>
    /\ workers = [i \in Workers |-> NewWorker]
    /\ callers = [i \in Callers |-> NewCaller]
    /\ legacy = NewLegacy
    /\ db_config = [run |-> NewDBConfig, wrapper |-> NewDBConfig]
    /\ sess = NoSession
    /\ site = "none"
    /\ ms = "none"
    /\ err = NoErr
    /\ job_err = NoErr
    /\ observed = Pending
    /\ processed_images = {}
    /\ image_files = <<>>
    /\ batch = <<>>
    /\ done_n = 0
    /\ preds = <<>>
    /\ si = 0
    /\ di = 0
    /\ neg_todo = <<>>
    /\ trace = NoTrace

Init ==
    /\ status_tbl \in InitialStatusTables
    /\ pc = "idle"
    /\ Fresh

\* ------------------------------------------------------ DBConfigSQLAlchemy
AzOutcomes == {"ok", "login", "get_token", "parse_token", "parse_expiry"}

\* _get_db_access_token(client_id): the new object state and the exception
\* raised (NoErr on normal return).  out is what the az CLI does, tok the
\* token it issues, expires_on its expiresOn.
_get_db_access_token(cfg, out, tok, expires_on, origin) ==
    CASE out = "login" -> [cfg |-> cfg, err |-> <<"CalledProcessError", origin>>]
      [] out = "get_token" -> [cfg |-> cfg, err |-> <<"CalledProcessError", origin>>]
      [] out = "parse_token" -> [cfg |-> cfg, err |-> <<"JSONDecodeError", origin>>]
      [] out = "parse_expiry" ->
            [cfg |-> [cfg EXCEPT !.access_token = <<tok>>], err |-> <<"ValueError", origin>>]
      [] OTHER ->
            [cfg |-> [cfg EXCEPT !.access_token = <<tok>>,
                                 !.token_expiration_time = <<expires_on - token_renewal_margin>>],
             err |-> NoErr]

ConnOutcomes == AzOutcomes \cup {"no_config", "engine"}

\* create_connection that tries once more when its first attempt fails
create_connection_RetryOnce(cfg, out, tok, expires_on, origin) ==
    LET t == _get_db_access_token(cfg, "ok", tok, expires_on, origin)
    IN  [cfg |-> [t.cfg EXCEPT !.engine = <<[token |-> tok, disposes |-> 0]>>,
                               !.session_maker = <<tok>>],
         err |-> NoErr]

\* create_connection, with _get_db_connection_string inlined
create_connection(cfg, out, tok, expires_on, origin) ==
    IF out = "no_config" THEN [cfg |-> cfg, err |-> <<"FileNotFoundError", origin>>]
    ELSE LET t == _get_db_access_token(cfg, IF out = "engine" THEN "ok" ELSE out,
                                       tok, expires_on, origin)
         IN  IF t.err # NoErr THEN t
             ELSE IF out = "engine" THEN [cfg |-> t.cfg, err |-> <<"ArgumentError", origin>>]
             ELSE [cfg |-> [t.cfg EXCEPT !.engine = <<[token |-> tok, disposes |-> 0]>>,
                                         !.session_maker = <<tok>>],
                   err |-> NoErr]

\* what engine.dispose() can do: return, raise an SQLAlchemyError, raise
\* another exception
EngineDisposeExcs == {NoErr, <<"OperationalError", "engine.dispose">>,
                      <<"AttributeError", "engine.dispose">>}

\* close_connection: engine.dispose(); without an engine None.dispose() raises.
\* dispose_exc is what engine.dispose() raises: an SQLAlchemyError is logged
\* and raised again, any other exception passes through.  disposes counts the
\* calls of engine.dispose().
close_connection(cfg, dispose_exc, origin) ==
    IF cfg.engine = <<>> THEN [cfg |-> cfg, err |-> <<"AttributeError", origin>>]
    ELSE [cfg |-> [cfg EXCEPT !.engine = <<[cfg.engine[1] EXCEPT !.disposes = @ + 1]>>],
          err |-> dispose_exc]

\* the test of _validate_token_status: the stored expiry lies in the past
TokenExpired(cfg, t) == cfg.token_expiration_time[1] < t

\* _validate_token_status that logs a failed renewal and goes on
_validate_token_status_IgnoreFailure(cfg, t) ==
    IF cfg.token_expiration_time = <<>> THEN <<"TypeError", "compare">> ELSE NoErr

\* _validate_token_status: the exception it raises (NoErr on normal return).
\* The renewal is the call self._get_db_access_token() without client_id.
_validate_token_status(cfg, t) ==
    IF cfg.token_expiration_time = <<>> THEN <<"TypeError", "compare">>
    ELSE IF TokenExpired(cfg, t) THEN <<"TypeError", "renew">>
    ELSE NoErr

\* _get_session
_get_session(cfg) ==
    IF cfg.session_maker = <<>> THEN <<"RuntimeError", "_get_session">> ELSE NoErr

\* ------------------------------------------------------------ the store
Key(r) == <<r.customer, r.date, r.filename>>

\* extract_upload_date(path) returns (filename, upload date)
extract_upload_date(path) == <<path[2], path[1]>>

\* the effect of the flush of one pending operation on the tables;
\* ok is FALSE when the database rejects it (primary key violation)
Flush1(db, op) ==
    CASE op.op = "add" /\ op.tbl = "status" ->
            IF \E r \in db.status : Key(r) = Key(op.row)
            THEN [db EXCEPT !.ok = FALSE]
            ELSE [db EXCEPT !.status = @ \cup {op.row}]
      [] op.op = "merge" /\ op.tbl = "status" ->
            [db EXCEPT !.status = {r \in @ : Key(r) # Key(op.row)} \cup {op.row}]
      [] op.tbl = "det" -> [db EXCEPT !.det = Append(@, op.row)]
      [] OTHER -> [db EXCEPT !.batch = Append(@, op.row)]

RECURSIVE Flush(_, _)
Flush(db, ops) ==
    IF ops = <<>> \/ ~db.ok THEN db ELSE Flush(Flush1(db, Head(ops)), Tail(ops))

\* ------------------------------------------------- raising and returning
\* an exception leaves run and reaches the except clause of wrapper
RaiseInRun(e) ==
    /\ err' = e
    /\ pc' = "catch"

\* an exception leaves wrapper: the caller observes it
RaiseInWrapper(e) ==
    /\ err' = e
    /\ observed' = e
    /\ pc' = "done"

\* enter "with db_config.managed_session() as session" at the given place
EnterManagedSession(s) ==
    /\ pc' = "ms"
    /\ site' = s
    /\ ms' = "enter"

\* -------------------------------------------------------------- wrapper
\* The worker calls the decorated run with its keyword arguments.
StartRun ==
    /\ pc = "idle"
    /\ \E skip \in BOOLEAN, blur \in BOOLEAN, creds \in BOOLEAN,
          w \in {"str", "list"}, d \in Datasets :
       \E bs \in BatchSizes(d), lab \in SUBSET Range(d) :
          \* without reporting the database arguments keep their defaults
          /\ ~skip => ~creds /\ w = "str"
          \* the labels of the images are read only when the run evaluates
          /\ skip => lab = {}
          /\ kw' = [skip_evaluation |-> skip, save_blurred_image |-> blur, creds |-> creds,
                    customer_name |-> "acme", weights |-> w, batch_size |-> bs, data |-> d,
                    labels |-> lab, run_id |-> 1]
    /\ pc' = "run_init"
    /\ db_config' = [run |-> NewDBConfig, wrapper |-> NewDBConfig]
    /\ sess' = NoSession
    /\ site' = "none"
    /\ ms' = "none"
    /\ err' = NoErr
    /\ job_err' = NoErr
    /\ observed' = Pending
    /\ processed_images' = {}
    /\ image_files' = <<>>
    /\ batch' = <<>>
    /\ done_n' = 0
    /\ preds' = <<>>
    /\ si' = 0
    /\ di' = 0
    /\ neg_todo' = <<>>
    /\ trace' = NoTrace
    /\ UNCHANGED <<store, now, tokens, ext>>

\* time passes; the clock is read when managed_session is entered
Tick ==
    /\ pc = "ms" /\ ms = "enter"
    /\ now < MaxNow
    /\ now' = now + 1
    /\ UNCHANGED <<store, tokens, pc, kw, db_config, sess, site, ms, err, job_err,
                   observed, processed_images, image_files, loopv, trace, ext>>

\* "not db_username or not db_name or not db_hostname"
CredentialsMissing(k) == ~k.creds

\* run, lines 205-247: device, directories, model loading, check_dataset
RunInit ==
    /\ pc = "run_init"
    /\ trace' = [trace EXCEPT !.work = TRUE]
    /\ \/ /\ pc' = "run_dbconfig"
          /\ UNCHANGED err
       \/ RaiseInRun(<<"ModelError", "run">>)
    /\ UNCHANGED <<store, now, tokens, kw, db_config, sess, site, ms, job_err, observed,
                   processed_images, image_files, loopv, ext>>

\* run, lines 249-257: credential check and connection of run's DBConfig
RunDbConfig ==
    /\ pc = "run_dbconfig"
    /\ IF ~kw.skip_evaluation
       THEN /\ pc' = "run_warmup"
            /\ UNCHANGED <<err, db_config, tokens, trace>>
       ELSE IF CredentialsMissing(kw)
       THEN /\ RaiseInRun(<<"CredentialsValueError", "run">>)
            /\ UNCHANGED <<db_config, tokens, trace>>
       ELSE \E out \in ConnOutcomes, life \in Lifetimes :
              LET r == create_connection(NewDBConfig, out, tokens + 1, now + life, "run")
              IN  /\ db_config' = [db_config EXCEPT !.run = r.cfg]
                  /\ tokens' = IF r.cfg.access_token = <<>> THEN tokens ELSE tokens + 1
                  /\ IF r.err = NoErr
                     THEN pc' = "run_warmup" /\ UNCHANGED err
                     ELSE RaiseInRun(r.err)
                  /\ UNCHANGED trace
    /\ UNCHANGED <<store, now, kw, sess, site, ms, job_err, observed,
                   processed_images, image_files, loopv, ext>>

\* ReportingEnabled when the flag defaults to True
ReportingEnabled_DefaultTrue(k) == TRUE

\* wrapper, lines 23 and 25: kwargs.get('skip_evaluation', False)
ReportingEnabled(k) == k.skip_evaluation

\* wrapper, lines 12-28: the except clause up to the credential check
Catch ==
    /\ pc = "catch"
    /\ job_err' = err
    /\ IF ~ReportingEnabled(kw)
       THEN \* line 50: raise e
            /\ observed' = err
            /\ pc' = "done"
            /\ UNCHANGED <<err, trace>>
       ELSE IF CredentialsMissing(kw)
       THEN /\ RaiseInWrapper(<<"CredentialsValueError", "wrapper">>)
            /\ UNCHANGED trace
       ELSE /\ pc' = "h_connect"
            /\ UNCHANGED <<err, observed, trace>>
    /\ UNCHANGED <<store, now, tokens, kw, db_config, sess, site, ms,
                   processed_images, image_files, loopv, ext>>

\* wrapper, lines 31-37: a new DBConfigSQLAlchemy and its connection
HandlerConnect ==
    /\ pc = "h_connect"
    /\ \E out \in ConnOutcomes, life \in Lifetimes :
         LET r == create_connection(NewDBConfig, out, tokens + 1, now + life, "wrapper")
         IN  /\ db_config' = [db_config EXCEPT !.wrapper = r.cfg]
             /\ tokens' = IF r.cfg.access_token = <<>> THEN tokens ELSE tokens + 1
             /\ IF r.err = NoErr
                THEN EnterManagedSession("audit") /\ UNCHANGED <<err, observed>>
                ELSE RaiseInWrapper(r.err) /\ UNCHANGED <<site, ms>>
    /\ UNCHANGED <<store, now, kw, sess, job_err, processed_images, image_files,
                   loopv, trace, ext>>

\* wrapper, line 50: raise e
HandlerRaise ==
    /\ pc = "h_raise"
    /\ observed' = job_err
    /\ pc' = "done"
    /\ UNCHANGED <<store, now, tokens, kw, db_config, sess, site, ms, err, job_err,
                   processed_images, image_files, loopv, trace, ext>>

\* ------------------------------------------------------- managed_session
CfgOf(s) == IF s = "audit" THEN "wrapper" ELSE "run"

\* an exception leaves the with-block: to wrapper's except clause when the
\* block is in run, to the caller when it is the block of wrapper
Propagate(e) == IF site = "audit" THEN RaiseInWrapper(e) ELSE RaiseInRun(e) /\ UNCHANGED observed

\* AfterBody with a bare "except:" that commits what the block had done
AfterBody_CommitOnOtherError(e) ==
    IF e = NoErr THEN "commit"
    ELSE IF IsSQLAlchemyError(e) THEN "rollback"
    ELSE "commit"

\* where managed_session goes when the with-block has ended with exception e
\* (NoErr: normal end): commit, except SQLAlchemyError, or only finally
AfterBody(e) ==
    IF e = NoErr THEN "commit"
    ELSE IF IsSQLAlchemyError(e) THEN "rollback"
    ELSE "close"

\* the body called session.add / session.merge with these operations and
\* ended with exception e
EndBody(ops, e) ==
    /\ sess' = [sess EXCEPT !.pending = @ \o ops, !.ops = @ \o ops, !.body_err = e]
    /\ err' = e
    /\ ms' = AfterBody(e)

\* managed_session, lines 86-89: _validate_token_status, then _get_session
MsEnter ==
    /\ pc = "ms" /\ ms = "enter"
    /\ LET cfg == db_config[CfgOf(site)]
           v == _validate_token_status(cfg, now)
           g == _get_session(cfg)
           expired == cfg.token_expiration_time # <<>> /\ TokenExpired(cfg, now)
       IN  /\ trace' = [trace EXCEPT !.entry =
                            [expired |-> expired,
                             renew_calls |-> IF expired THEN 1 ELSE 0,
                             renew_ok |-> IF expired /\ v = NoErr THEN 1 ELSE 0],
                                         !.open = IF v = NoErr /\ g = NoErr THEN @ + 1 ELSE @]
           /\ IF v # NoErr THEN Propagate(v) /\ UNCHANGED <<sess, ms>>
              ELSE IF g # NoErr THEN Propagate(g) /\ UNCHANGED <<sess, ms>>
              ELSE /\ sess' = [NoSession EXCEPT !.obtained = TRUE, !.site = site,
                                                !.open = TRUE, !.before = store]
                   /\ ms' = "body"
                   /\ UNCHANGED <<pc, err, observed>>
    /\ UNCHANGED <<store, now, tokens, kw, db_config, site, job_err,
                   processed_images, image_files, loopv, ext>>

\* MsCommit on a connection in autocommit mode: the operations flushed
\* before the one the database rejects stay in the tables
MsCommit_Autocommit ==
    /\ pc = "ms" /\ ms = "commit"
    /\ LET db == Flush([status |-> status_tbl, det |-> det_tbl, batch |-> batch_tbl,
                        ok |-> TRUE], sess.pending)
       IN  /\ status_tbl' = db.status
           /\ det_tbl' = db.det
           /\ batch_tbl' = db.batch
           /\ IF db.ok
              THEN /\ sess' = [sess EXCEPT !.commits = @ + 1, !.committed = TRUE,
                                           !.pending = <<>>]
                   /\ ms' = "close"
                   /\ UNCHANGED err
              ELSE /\ err' = <<"IntegrityError", "commit">>
                   /\ sess' = [sess EXCEPT !.commits = @ + 1]
                   /\ ms' = "rollback"
    /\ UNCHANGED <<now, tokens, pc, kw, db_config, site, job_err, observed,
                   processed_images, image_files, loopv, trace, ext>>

\* session.commit(): the pending operations are flushed and committed
\* together, or the database raises and nothing is committed
MsCommit ==
    /\ pc = "ms" /\ ms = "commit"
    /\ LET db == Flush([status |-> status_tbl, det |-> det_tbl, batch |-> batch_tbl,
                        ok |-> TRUE], sess.pending)
       IN  \/ /\ db.ok
              /\ status_tbl' = db.status
              /\ det_tbl' = db.det
              /\ batch_tbl' = db.batch
              /\ sess' = [sess EXCEPT !.commits = @ + 1, !.committed = TRUE, !.pending = <<>>]
              /\ ms' = "close"
              /\ UNCHANGED err
           \/ /\ ~db.ok
              /\ err' = <<"IntegrityError", "commit">>
              /\ sess' = [sess EXCEPT !.commits = @ + 1]
              /\ ms' = "rollback"
              /\ UNCHANGED store
           \/ /\ err' = <<"OperationalError", "commit">>
              /\ sess' = [sess EXCEPT !.commits = @ + 1]
              /\ ms' = "rollback"
              /\ UNCHANGED store
    /\ UNCHANGED <<now, tokens, pc, kw, db_config, site, job_err, observed,
                   processed_images, image_files, loopv, trace, ext>>

\* except SQLAlchemyError as e: session.rollback(); raise e
MsRollback ==
    /\ pc = "ms" /\ ms = "rollback"
    /\ sess' = [sess EXCEPT !.rollbacks = @ + 1, !.pending = <<>>]
    /\ \/ UNCHANGED err
       \/ err' = <<"OperationalError", "rollback">>
    /\ ms' = "close"
    /\ UNCHANGED <<store, now, tokens, pc, kw, db_config, site, job_err, observed,
                   processed_images, image_files, loopv, trace, ext>>

\* Continuation of a wrapper that reports the failure once more after its block
Continuation_ReportAgain(s) ==
    CASE s = "query" -> "run_dataloader"
      [] s = "claim" -> "run_batch"
      [] s = "pos" -> "run_det"
      [] s = "neg" -> "run_neg"
      [] s = "success" -> "run_return"
      [] OTHER -> "h_connect"

\* where the caller continues after a with-block that ended normally
Continuation(s) ==
    CASE s = "query" -> "run_dataloader"
      [] s = "claim" -> "run_batch"
      [] s = "pos" -> "run_det"
      [] s = "neg" -> "run_neg"
      [] s = "success" -> "run_return"
      [] OTHER -> "h_raise"

\* session.close(): pending operations are discarded
Close(s) == [s EXCEPT !.closes = @ + 1, !.open = FALSE, !.pending = <<>>]

\* Finally with session.close() after the try statement instead of in finally
Finally_CloseOnlyOnSuccess(s) == IF s.committed THEN Close(s) ELSE s

\* Finally without session.close()
Finally_NoClose(s) == s

\* the finally clause of managed_session, line 97
Finally(s) == Close(s)

\* the sessions still open once the finally clause has run
StillOpen(n, s) == IF s.open /\ ~Finally(s).open THEN n - 1 ELSE n

\* finally: session.close(); then the with-block is left
MsClose ==
    /\ pc = "ms" /\ ms = "close"
    /\ sess' = [Finally(sess) EXCEPT !.exit_err = err]
    /\ ms' = "none"
    /\ IF err = NoErr
       THEN /\ pc' = Continuation(site)
            /\ di' = IF site = "pos" THEN di + 1 ELSE di
            /\ neg_todo' = IF site = "neg" THEN Tail(neg_todo) ELSE neg_todo
            /\ trace' = [trace EXCEPT
                            !.claimed = IF site = "claim" THEN Range(image_files) ELSE @,
                            !.open = StillOpen(@, sess)]
            /\ UNCHANGED <<err, observed>>
       ELSE /\ Propagate(err)
            /\ trace' = [trace EXCEPT !.open = StillOpen(@, sess)]
            /\ UNCHANGED <<di, neg_todo>>
    /\ UNCHANGED <<store, now, tokens, kw, db_config, site, job_err,
                   processed_images, image_files, batch, done_n, preds, si, ext>>

\* ------------------------------------------------------ the with-blocks
Add(tbl, row) == [op |-> "add", tbl |-> tbl, row |-> row]
Merge(tbl, row) == [op |-> "merge", tbl |-> tbl, row |-> row]

\* 'processed'
processing_statuses == {"processed"}

\* QueryCompleted without the customer filter
QueryCompleted_AnyCustomer(tbl, customer, statuses) ==
    {<<r.date, r.filename>> : r \in {q \in tbl : q.status \in statuses}}

\* the query of run, lines 278-288: (upload_date, image_filename) of the rows
\* of the customer whose status is one of the given statuses
QueryCompleted(tbl, customer, statuses) ==
    {<<r.date, r.filename>> : r \in {q \in tbl : q.customer = customer /\ q.status \in statuses}}

BodyQuery ==
    /\ pc = "ms" /\ ms = "body" /\ site = "query"
    /\ \/ /\ processed_images' = QueryCompleted(status_tbl, kw.customer_name, processing_statuses)
          /\ EndBody(<<>>, NoErr)
          /\ UNCHANGED db_config
       \/ \* except SQLAlchemyError: db_config.close_connection(); raise e
          \* (an exception of close_connection leaves the block in place of e)
          \E dispose_exc \in EngineDisposeExcs :
             LET r == close_connection(db_config.run, dispose_exc, "query")
             IN  /\ db_config' = [db_config EXCEPT !.run = r.cfg]
                 /\ EndBody(<<>>, IF r.err # NoErr THEN r.err
                                  ELSE <<"OperationalError", "query">>)
                 /\ UNCHANGED processed_images
    /\ UNCHANGED <<store, now, tokens, pc, kw, site, job_err, observed, image_files,
                   loopv, trace, ext>>

\* the row the claim loop of run adds for one image file, lines 320-326
ClaimRow(customer, path) ==
    LET fd == extract_upload_date(path)
    IN  [customer |-> customer, date |-> fd[2], filename |-> fd[1], status |-> "inprogress"]

\* ClaimOp with session.merge, as the completions do
ClaimOp_Merge(row) == Merge("status", row)

\* how the claim loop hands a row to the session, line 329
ClaimOp(row) == Add("status", row)

\* run, lines 316-329: the loop stops at image n + 1 if extract_upload_date raises
BodyClaim ==
    /\ pc = "ms" /\ ms = "body" /\ site = "claim"
    /\ \E n \in 0..Len(image_files) :
         LET ops == [i \in 1..n |-> ClaimOp(ClaimRow(kw.customer_name, image_files[i]))]
         IN  EndBody(ops, IF n = Len(image_files) THEN NoErr
                          ELSE <<"ValueError", "extract_upload_date">>)
    /\ UNCHANGED <<store, now, tokens, pc, kw, db_config, site, job_err, observed,
                   processed_images, image_files, loopv, trace, ext>>

\* shapes[si][0]: (height, width) of the original image
ImageShape == <<1, 2>>

\* DetectionInformation of one prediction, lines 472-483
PositiveRow(customer, path, det, run_id) ==
    LET fd == extract_upload_date(path)
    IN  [customer |-> customer, date |-> fd[2], filename |-> fd[1], has_detection |-> TRUE,
         class_id |-> <<det.cls>>, box |-> det.xyxy,
         image_width |-> <<ImageShape[2]>>, image_height |-> <<ImageShape[1]>>,
         run_id |-> run_id]

\* DetectionInformation of an image without detection, lines 518-529
NegativeRow(customer, path, run_id) ==
    LET fd == extract_upload_date(path)
    IN  [customer |-> customer, date |-> fd[2], filename |-> fd[1], has_detection |-> FALSE,
         class_id |-> <<>>, box |-> <<>>, image_width |-> <<>>, image_height |-> <<>>,
         run_id |-> run_id]

\* ImageProcessingStatus(..., processing_status='processed'), lines 489-492, 532-535
ProcessedRow(customer, path) ==
    LET fd == extract_upload_date(path)
    IN  [customer |-> customer, date |-> fd[2], filename |-> fd[1], status |-> "processed"]

\* CompleteOp with session.add, as the claim loop does
CompleteOp_Add(row) == Add("status", row)

\* how a completion hands the status row to the session, lines 495 and 542
CompleteOp(row) == Merge("status", row)

\* run, lines 470-495: one prediction with a positive area
BodyPos ==
    /\ pc = "ms" /\ ms = "body" /\ site = "pos"
    /\ LET a == Add("det", PositiveRow(kw.customer_name, batch[si], preds[si][di], kw.run_id))
           m == CompleteOp(ProcessedRow(kw.customer_name, batch[si]))
       IN  \/ EndBody(<<a, m>>, NoErr)
           \/ EndBody(<<a>>, <<"OperationalError", "merge">>)
    /\ UNCHANGED <<store, now, tokens, pc, kw, db_config, site, job_err, observed,
                   processed_images, image_files, loopv, trace, ext>>

\* BodyNeg that only updates the status and adds no detection row
BodyNeg_StatusOnly ==
    /\ pc = "ms" /\ ms = "body" /\ site = "neg"
    /\ EndBody(<<CompleteOp(ProcessedRow(kw.customer_name, Head(neg_todo)))>>, NoErr)
    /\ UNCHANGED <<store, now, tokens, pc, kw, db_config, site, job_err, observed,
                   processed_images, image_files, loopv, trace, ext>>

\* run, lines 538-542: one image without detection
BodyNeg ==
    /\ pc = "ms" /\ ms = "body" /\ site = "neg"
    /\ LET a == Add("det", NegativeRow(kw.customer_name, Head(neg_todo), kw.run_id))
           m == CompleteOp(ProcessedRow(kw.customer_name, Head(neg_todo)))
       IN  \/ EndBody(<<a, m>>, NoErr)
           \/ EndBody(<<a>>, <<"OperationalError", "merge">>)
    /\ UNCHANGED <<store, now, tokens, pc, kw, db_config, site, job_err, observed,
                   processed_images, image_files, loopv, trace, ext>>

\* os.path.split(weights)[-1]; <<>> when weights is not a path (a list)
ModelName(w) == IF w = "str" THEN <<"best.pt">> ELSE <<>>

\* SuccessRow with error_code 'ok' in place of None
SuccessRow_ErrorCodeOk(k, t) ==
    [run_id |-> k.run_id, end_time |-> t,
     trained_yolo_model |-> IF ModelName(k.weights) = <<>> THEN "" ELSE ModelName(k.weights)[1],
     success |-> TRUE, error_code |-> <<"ok">>]

\* BatchRunInformation of run, lines 625-639
SuccessRow(k, t) ==
    [run_id |-> k.run_id, end_time |-> t,
     trained_yolo_model |-> IF ModelName(k.weights) = <<>> THEN "" ELSE ModelName(k.weights)[1],
     success |-> TRUE, error_code |-> <<>>]

\* BatchRunInformation of wrapper, lines 39-44
FailureRow(k, t, e) ==
    [run_id |-> k.run_id, end_time |-> t, trained_yolo_model |-> ModelName(k.weights)[1],
     success |-> FALSE, error_code |-> <<str(e)>>]

\* run, lines 632-642
BodySuccess ==
    /\ pc = "ms" /\ ms = "body" /\ site = "success"
    /\ EndBody(<<Add("batch", SuccessRow(kw, now))>>, NoErr)
    /\ UNCHANGED <<store, now, tokens, pc, kw, db_config, site, job_err, observed,
                   processed_images, image_files, loopv, trace, ext>>

\* wrapper, lines 37-47
BodyAudit ==
    /\ pc = "ms" /\ ms = "body" /\ site = "audit"
    /\ IF ModelName(kw.weights) = <<>>
       THEN /\ EndBody(<<>>, <<"TypeError", "os.path.split">>)
            /\ UNCHANGED trace
       ELSE /\ EndBody(<<Add("batch", FailureRow(kw, now, job_err))>>, NoErr)
            /\ trace' = [trace EXCEPT !.audit_adds = Append(@, FailureRow(kw, now, job_err))]
    /\ UNCHANGED <<store, now, tokens, pc, kw, db_config, site, job_err, observed,
                   processed_images, image_files, loopv, ext>>

\* ------------------------------------------------------------------ run
\* run, lines 260-275: class-count assertion, warmup, then the query block
RunWarmup ==
    /\ pc = "run_warmup"
    /\ \/ /\ RaiseInRun(<<"AssertionError", "run">>)
          /\ UNCHANGED <<site, ms>>
       \/ /\ kw.skip_evaluation
          /\ EnterManagedSession("query")
          /\ UNCHANGED err
       \/ /\ ~kw.skip_evaluation
          /\ pc' = "run_dataloader"
          /\ UNCHANGED <<err, site, ms>>
    /\ UNCHANGED <<store, now, tokens, kw, db_config, sess, job_err, observed,
                   processed_images, image_files, loopv, trace, ext>>

\* create_dataloader(data[task], processed_images, ...): the image files of
\* the dataset that are not among the processed images
create_dataloader(data, processed) ==
    SelectSeq(data, LAMBDA p : p \notin processed)

\* run, lines 301-316
RunDataloader ==
    /\ pc = "run_dataloader"
    /\ image_files' = create_dataloader(kw.data, processed_images)
    /\ IF kw.skip_evaluation
       THEN EnterManagedSession("claim")
       ELSE pc' = "run_batch" /\ UNCHANGED <<site, ms>>
    /\ UNCHANGED <<store, now, tokens, kw, db_config, sess, err, job_err, observed,
                   processed_images, loopv, trace, ext>>

\* run, lines 345-381: the next batch of the dataloader, inference and NMS;
\* after the last batch, lines 559-580
RunBatch ==
    /\ pc = "run_batch"
    /\ IF done_n < Len(image_files)
       THEN LET b == SubSeq(image_files, done_n + 1, Min(done_n + kw.batch_size, Len(image_files)))
            IN  \/ /\ batch' = b
                   /\ \E p \in [1..Len(b) -> SeqsUpTo(Detections, MaxDet)] :
                        /\ preds' = p
                        /\ trace' = [trace EXCEPT !.inferred =
                                        @ \o [i \in 1..Len(b) |-> <<b[i], p[i]>>]]
                   /\ si' = 1
                   /\ pc' = "run_image"
                   /\ UNCHANGED err
                \/ /\ RaiseInRun(<<"InferenceError", "run">>)
                   /\ UNCHANGED <<batch, preds, si, trace>>
       ELSE /\ IF ~kw.skip_evaluation /\ trace.stats = 0
               THEN RaiseInRun(<<"IndexError", "run">>)          \* line 566: stats[3]
               ELSE IF Len(image_files) = 0
               THEN RaiseInRun(<<"ZeroDivisionError", "run">>)   \* line 580: x.t / seen
               ELSE pc' = "run_final" /\ UNCHANGED err
            /\ UNCHANGED <<batch, preds, si, trace>>
    /\ UNCHANGED <<store, now, tokens, kw, db_config, sess, site, ms, job_err, observed,
                   processed_images, image_files, done_n, di, neg_todo, ext>>

\* image_detections[path] is False: paths of the batch without prediction
false_paths(b, p) == SelectSeq([i \in 1..Len(b) |-> <<b[i], Len(p[i]) > 0>>],
                               LAMBDA x : ~x[2])

\* run, lines 384-410 and 454: image si of the batch; after the last image
\* of the batch, lines 509-511
RunImage ==
    /\ pc = "run_image"
    /\ IF si <= Len(batch)
       THEN /\ IF Len(preds[si]) = 0
               THEN si' = si + 1 /\ UNCHANGED <<pc, di>>            \* npr == 0: continue
               ELSE IF kw.save_blurred_image
               THEN pc' = "run_det" /\ di' = 1 /\ UNCHANGED si
               ELSE si' = si + 1 /\ UNCHANGED <<pc, di>>
            \* lines 407 and 431: stats.append when the run evaluates and
            \* the image has a prediction or a label
            /\ trace' = [trace EXCEPT !.stats =
                            IF ~kw.skip_evaluation
                               /\ (Len(preds[si]) > 0 \/ batch[si] \in kw.labels)
                            THEN @ + 1 ELSE @]
            /\ UNCHANGED <<neg_todo, done_n>>
       ELSE IF kw.skip_evaluation
       THEN /\ LET f == false_paths(batch, preds)
               IN  neg_todo' = [i \in 1..Len(f) |-> f[i][1]]
            /\ pc' = "run_neg"
            /\ UNCHANGED <<si, di, done_n, trace>>
       ELSE /\ done_n' = done_n + Len(batch)
            /\ trace' = [trace EXCEPT !.handled = @ \cup Range(batch)]
            /\ pc' = "run_batch"
            /\ UNCHANGED <<si, di, neg_todo>>
    /\ UNCHANGED <<store, now, tokens, kw, db_config, sess, site, ms, err, job_err,
                   observed, processed_images, image_files, batch, preds, ext>>

\* is_area_positive
is_area_positive(x1, y1, x2, y2) ==
    IF x1 = x2 \/ y1 = y2 THEN FALSE ELSE TRUE

\* run, lines 456-507: prediction di of image si; after the last prediction
\* the blurred image is written
RunDet ==
    /\ pc = "run_det"
    /\ IF di <= Len(preds[si])
       THEN LET b == preds[si][di].xyxy
            IN  IF is_area_positive(b[1], b[2], b[3], b[4]) /\ kw.skip_evaluation
                THEN EnterManagedSession("pos") /\ UNCHANGED <<si, di, err>>
                ELSE di' = di + 1 /\ UNCHANGED <<pc, site, ms, si, err>>
       ELSE \/ /\ si' = si + 1
               /\ pc' = "run_image"
               /\ UNCHANGED <<site, ms, di, err>>
            \/ /\ RaiseInRun(<<"ImwriteException", "run">>)
               /\ UNCHANGED <<site, ms, si, di>>
    /\ UNCHANGED <<store, now, tokens, kw, db_config, sess, job_err, observed,
                   processed_images, image_files, batch, done_n, preds, neg_todo, trace, ext>>

\* run, lines 514-542: the images of the batch without detection
RunNeg ==
    /\ pc = "run_neg"
    /\ IF neg_todo # <<>>
       THEN /\ EnterManagedSession("neg")
            /\ UNCHANGED <<done_n, trace>>
       ELSE /\ done_n' = done_n + Len(batch)
            /\ trace' = [trace EXCEPT !.handled = @ \cup Range(batch)]
            /\ pc' = "run_batch"
            /\ UNCHANGED <<site, ms>>
    /\ UNCHANGED <<store, now, tokens, kw, db_config, sess, err, job_err, observed,
                   processed_images, image_files, batch, preds, si, di, neg_todo, ext>>

\* run, lines 623-632: the success row
RunFinal ==
    /\ pc = "run_final"
    /\ IF kw.skip_evaluation
       THEN EnterManagedSession("success") /\ UNCHANGED observed
       ELSE pc' = "done" /\ observed' = Result /\ UNCHANGED <<site, ms>>
    /\ UNCHANGED <<store, now, tokens, kw, db_config, sess, err, job_err,
                   processed_images, image_files, loopv, trace, ext>>

\* RunReturn when wrapper reports in a finally clause instead of except
RunReturn_AuditAlways ==
    /\ pc = "run_return"
    /\ pc' = "h_connect"
    /\ UNCHANGED <<store, now, tokens, kw, db_config, sess, site, ms, err, job_err, observed,
                   processed_images, image_files, loopv, trace, ext>>

\* RunReturn when building the result raises after the success row
RunReturn_Raises ==
    /\ pc = "run_return"
    /\ RaiseInRun(<<"ZeroDivisionError", "return">>)
    /\ UNCHANGED <<store, now, tokens, kw, db_config, sess, site, ms, job_err, observed,
                   processed_images, image_files, loopv, trace, ext>>

\* run, lines 644-645, and wrapper, line 11: the result is returned
RunReturn ==
    /\ pc = "run_return"
    /\ observed' = Result
    /\ pc' = "done"
    /\ UNCHANGED <<store, now, tokens, kw, db_config, sess, site, ms, err, job_err,
                   processed_images, image_files, loopv, trace, ext>>

Next ==
    \/ StartRun
    \/ Tick
    \/ RunInit
    \/ RunDbConfig
    \/ RunWarmup
    \/ RunDataloader
    \/ RunBatch
    \/ RunImage
    \/ RunDet
    \/ RunNeg
    \/ RunFinal
    \/ RunReturn
    \/ MsEnter
    \/ BodyQuery
    \/ BodyClaim
    \/ BodyPos
    \/ BodyNeg
    \/ BodySuccess
    \/ BodyAudit
    \/ MsCommit
    \/ MsRollback
    \/ MsClose
    \/ Catch
    \/ HandlerConnect
    \/ HandlerRaise

Spec == Init /\ [][Next]_vars

\* ------------------------------------------- a client of DBConfigSQLAlchemy
\* A client holds one DBConfigSQLAlchemy and calls create_connection,
\* close_connection and managed_session on it in any order; api_calls records each call, the
\* object before and after it and the exception it raised.
MaxCalls == 3         \* calls the client makes

InitApi ==
    /\ status_tbl = {}
    /\ pc = "api"
    /\ Fresh

\* out is what the environment did in the call, sessions the number of
\* sessions the call obtained
ApiCall(op, out, before, r, sessions) ==
    /\ api_calls' = Append(api_calls, [op |-> op, out |-> out, before |-> before,
                                        after |-> r.cfg, err |-> r.err,
                                        sessions |-> sessions])
    /\ db_config' = [db_config EXCEPT !.run = r.cfg]

\* db_config.create_connection()
ApiCreateConnection ==
    /\ pc = "api" /\ Len(api_calls) < MaxCalls
    /\ \E out \in ConnOutcomes, life \in Lifetimes :
         LET r == create_connection(db_config.run, out, tokens + 1, now + life, "api")
         IN  /\ ApiCall("create_connection", out, db_config.run, r, 0)
             /\ tokens' = IF r.cfg.access_token = db_config.run.access_token
                           THEN tokens ELSE tokens + 1
    /\ UNCHANGED <<store, now, pc, kw, sess, site, ms, err, job_err, observed,
                   processed_images, image_files, loopv, trace, workers, callers, legacy>>

\* db_config.close_connection()
ApiCloseConnection ==
    /\ pc = "api" /\ Len(api_calls) < MaxCalls
    /\ \E dispose_exc \in EngineDisposeExcs :
         ApiCall("close_connection", ErrClass(dispose_exc), db_config.run,
                 close_connection(db_config.run, dispose_exc, "api"), 0)
    /\ UNCHANGED <<store, now, tokens, pc, kw, sess, site, ms, err, job_err, observed,
                   processed_images, image_files, loopv, trace, workers, callers, legacy>>

\* with db_config.managed_session() as session: pass
\* (lines 86-89: _validate_token_status, then _get_session; the empty unit of
\* work is committed and its session closed)
ApiManagedSession ==
    /\ pc = "api" /\ Len(api_calls) < MaxCalls
    /\ LET cfg == db_config.run
           v == _validate_token_status(cfg, now)
           g == _get_session(cfg)
           e == IF v # NoErr THEN v ELSE g
       IN  ApiCall("managed_session", "ok", cfg, [cfg |-> cfg, err |-> e],
                   IF e = NoErr THEN 1 ELSE 0)
    /\ UNCHANGED <<store, now, tokens, pc, kw, sess, site, ms, err, job_err, observed,
                   processed_images, image_files, loopv, trace, workers, callers, legacy>>

NextApi ==
    \/ ApiCreateConnection
    \/ ApiCloseConnection
    \/ ApiManagedSession

SpecApi == InitApi /\ [][NextApi]_vars

\* ------------------------------------------------- concurrent worker runs
\* Several worker processes call the decorated run with reporting for the same
\* customer, each on its own connection, one run after the other and
\* concurrently with the other worker; the database commits one session at a
\* time.  The run of a worker is followed through its database operations: the
\* query, the claim block, the units of work of each batch, the success row,
\* and the failure row of wrapper; run_id is the number of the worker.
MaxRuns == 2          \* runs the workers start, all together

WorkerCustomer == "acme"

\* the keyword arguments of the run of worker i
WorkerKw(i) ==
    [NoKw EXCEPT !.skip_evaluation = TRUE, !.creds = TRUE,
                 !.customer_name = WorkerCustomer, !.run_id = i]

RECURSIVE Flatten(_)
Flatten(ss) == IF ss = <<>> THEN <<>> ELSE Head(ss) \o Flatten(Tail(ss))

\* run, lines 454-495: the units of work of one image with predictions p, one
\* for each prediction with a positive area, when the blurred image is saved
PositiveUnits(customer, path, p, blur, run_id) ==
    LET pos == SelectSeq(p, LAMBDA d : is_area_positive(d.xyxy[1], d.xyxy[2],
                                                         d.xyxy[3], d.xyxy[4]))
    IN  IF blur
        THEN [k \in 1..Len(pos) |->
                 <<Add("det", PositiveRow(customer, path, pos[k], run_id)),
                   CompleteOp(ProcessedRow(customer, path))>>]
        ELSE <<>>

\* run, lines 384-542: the units of work of a batch b with predictions p, in
\* the order run opens them: those of the predictions, image by image, then
\* one for each image of the batch without prediction
UnitsOfWork(customer, b, p, blur, run_id) ==
    LET f == false_paths(b, p)
    IN  Flatten([k \in 1..Len(b) |-> PositiveUnits(customer, b[k], p[k], blur, run_id)])
        \o [k \in 1..Len(f) |->
               <<Add("det", NegativeRow(customer, f[k][1], run_id)),
                 CompleteOp(ProcessedRow(customer, f[k][1]))>>]

\* the runs the workers of S have started
RECURSIVE RunsStarted(_)
RunsStarted(S) ==
    IF S = {} THEN 0
    ELSE LET i == CHOOSE x \in S : TRUE
         IN  workers[i].runs + RunsStarted(S \ {i})

\* the worker once the call has ended: the arguments and local variables of
\* the call are gone, the exception it raised is kept
Returned(w, at) == [NewWorker EXCEPT !.pc = at, !.runs = w.runs, !.err = w.err]

InitWorkers ==
    /\ status_tbl = {}
    /\ pc = "workers"
    /\ Fresh

WorkersUnchanged ==
    UNCHANGED <<now, tokens, pc, kw, db_config, sess, site, ms, err, job_err,
                observed, processed_images, image_files, loopv, trace, api_calls, callers, legacy>>

\* the worker calls run on a dataset
WStart(i) ==
    /\ pc = "workers"
    /\ workers[i].pc \in {"idle", "done", "reported"}
    /\ RunsStarted(Workers) < MaxRuns
    /\ \E d \in Datasets, blur \in BOOLEAN :
       \E bs \in BatchSizes(d) :
         workers' = [workers EXCEPT ![i] = [NewWorker EXCEPT !.pc = "query", !.data = d,
                                                              !.batch_size = bs,
                                                              !.save_blurred_image = blur,
                                                              !.runs = workers[i].runs + 1]]
    /\ UNCHANGED store
    /\ WorkersUnchanged

\* run, lines 275-311: the completed-work query and the dataloader
WQuery(i) ==
    /\ pc = "workers"
    /\ workers[i].pc = "query"
    /\ LET done == QueryCompleted(status_tbl, WorkerCustomer, processing_statuses)
       IN  workers' = [workers EXCEPT ![i].processed_images = done,
                                      ![i].image_files = create_dataloader(workers[i].data, done),
                                      ![i].pc = "claim"]
    /\ UNCHANGED store
    /\ WorkersUnchanged

\* run, lines 313-329: the body of the claim block
WClaim(i) ==
    /\ pc = "workers"
    /\ workers[i].pc = "claim"
    /\ LET f == workers[i].image_files
       IN  workers' = [workers EXCEPT
                          ![i].pending = [k \in 1..Len(f) |-> ClaimOp(ClaimRow(WorkerCustomer, f[k]))],
                          ![i].seen = status_tbl,
                          ![i].pc = "claim_commit"]
    /\ UNCHANGED store
    /\ WorkersUnchanged

\* managed_session, lines 92-97: the commit of the block of the worker, its
\* claim block or a unit of work; when the database rejects it the session is
\* rolled back and the run fails
WCommit(i) ==
    /\ pc = "workers"
    /\ workers[i].pc \in {"claim_commit", "complete_commit"}
    /\ LET db == Flush([status |-> status_tbl, det |-> det_tbl, batch |-> batch_tbl,
                        ok |-> TRUE], workers[i].pending)
       IN  IF db.ok
           THEN /\ status_tbl' = db.status
                /\ det_tbl' = db.det
                /\ workers' = [workers EXCEPT
                                  ![i].pending = <<>>,
                                  ![i].todo = IF workers[i].pc = "complete_commit"
                                              THEN Tail(@) ELSE @,
                                  ![i].pc = "work"]
           ELSE /\ workers' = [workers EXCEPT ![i].pending = <<>>,
                                              ![i].err = <<"IntegrityError", "commit">>,
                                              ![i].pc = "failed"]
                /\ UNCHANGED <<status_tbl, det_tbl>>
    /\ UNCHANGED batch_tbl
    /\ WorkersUnchanged

\* run, lines 345-381 and 384-542: the next batch of the dataloader, inference
\* and NMS, which give the units of work of the batch; or an exception of
\* inference
WBatch(i) ==
    /\ pc = "workers"
    /\ workers[i].pc = "work" /\ workers[i].todo = <<>>
    /\ workers[i].done_n < Len(workers[i].image_files)
    /\ LET w == workers[i]
           b == SubSeq(w.image_files, w.done_n + 1,
                       Min(w.done_n + w.batch_size, Len(w.image_files)))
       IN  \/ \E p \in [1..Len(b) -> SeqsUpTo(Detections, MaxDet)] :
                 workers' = [workers EXCEPT
                                ![i].todo = UnitsOfWork(WorkerCustomer, b, p,
                                                        w.save_blurred_image, i),
                                ![i].done_n = @ + Len(b)]
           \/ workers' = [workers EXCEPT ![i].err = <<"InferenceError", "run">>,
                                         ![i].pc = "failed"]
    /\ UNCHANGED store
    /\ WorkersUnchanged

\* run, lines 470-495 and 538-542: the body of the next unit of work of the
\* batch: the detection row is added and the status row of its image merged
\* into the session of the worker; the commit is a later step (WCommit)
WImage(i) ==
    /\ pc = "workers"
    /\ workers[i].pc = "work" /\ workers[i].todo # <<>>
    /\ workers' = [workers EXCEPT ![i].pending = Head(workers[i].todo),
                                  ![i].pc = "complete_commit"]
    /\ UNCHANGED store
    /\ WorkersUnchanged

\* run, lines 559-646: after the last batch; x.t / seen raises without images,
\* otherwise the success row is added and committed and run returns
WFinish(i) ==
    /\ pc = "workers"
    /\ workers[i].pc = "work" /\ workers[i].todo = <<>>
    /\ workers[i].done_n = Len(workers[i].image_files)
    /\ IF workers[i].image_files = <<>>
       THEN /\ workers' = [workers EXCEPT ![i].err = <<"ZeroDivisionError", "run">>,
                                          ![i].pc = "failed"]
            /\ UNCHANGED batch_tbl
       ELSE /\ batch_tbl' = Flush([status |-> status_tbl, det |-> det_tbl,
                                   batch |-> batch_tbl, ok |-> TRUE],
                                  <<Add("batch", SuccessRow(WorkerKw(i), now))>>).batch
            /\ workers' = [workers EXCEPT ![i] = Returned(@, "done")]
    /\ UNCHANGED <<status_tbl, det_tbl>>
    /\ WorkersUnchanged

\* wrapper, lines 12-50: the failure row of the run that raised, added and
\* committed on a connection of its own, then the exception is raised again
WReport(i) ==
    /\ pc = "workers"
    /\ workers[i].pc = "failed"
    /\ batch_tbl' = Flush([status |-> status_tbl, det |-> det_tbl,
                           batch |-> batch_tbl, ok |-> TRUE],
                          <<Add("batch", FailureRow(WorkerKw(i), now, workers[i].err))>>).batch
    /\ workers' = [workers EXCEPT ![i] = Returned(@, "reported")]
    /\ UNCHANGED <<status_tbl, det_tbl>>
    /\ WorkersUnchanged

NextWorkers ==
    \E i \in Workers :
        \/ WStart(i)
        \/ WQuery(i)
        \/ WClaim(i)
        \/ WCommit(i)
        \/ WBatch(i)
        \/ WImage(i)
        \/ WFinish(i)
        \/ WReport(i)

SpecWorkers == InitWorkers /\ [][NextWorkers]_vars

\* ------------------------------------ threads sharing one DBConfigSQLAlchemy
\* Two threads of one process share a connected DBConfigSQLAlchemy and enter
\* managed_session with an empty body, each at its own pace: a thread can be
\* suspended between the test of _validate_token_status and the renewal call.
MaxEntries == 2       \* times one thread enters managed_session

InitCallers ==
    /\ status_tbl = {}
    /\ pc = "callers"
    /\ Fresh

CallersUnchanged ==
    UNCHANGED <<store, pc, kw, sess, site, ms, err, job_err, observed, processed_images,
                image_files, loopv, trace, api_calls, workers, legacy>>

\* the process creates the shared object and its connection
CallersConnect ==
    /\ pc = "callers"
    /\ db_config.run = NewDBConfig
    /\ \E out \in ConnOutcomes, life \in Lifetimes :
         LET r == create_connection(NewDBConfig, out, tokens + 1, now + life, "run")
         IN  /\ db_config' = [db_config EXCEPT !.run = r.cfg]
             /\ tokens' = IF r.cfg.access_token = <<>> THEN tokens ELSE tokens + 1
    /\ UNCHANGED <<now, callers>>
    /\ CallersUnchanged

\* time passes
CallersTick ==
    /\ pc = "callers"
    /\ now < MaxNow
    /\ now' = now + 1
    /\ UNCHANGED <<tokens, db_config, callers>>
    /\ CallersUnchanged

\* the thread enters "with db_config.managed_session()"
CallerEnter(i) ==
    /\ pc = "callers"
    /\ db_config.run.engine # <<>>
    /\ callers[i].pc = "idle" /\ callers[i].entries < MaxEntries
    /\ callers' = [callers EXCEPT ![i].pc = "validate", ![i].entries = @ + 1]
    /\ UNCHANGED <<now, tokens, db_config>>
    /\ CallersUnchanged

\* _validate_token_status, line 107: the test
CallerValidate(i) ==
    /\ pc = "callers"
    /\ callers[i].pc = "validate"
    /\ callers' = [callers EXCEPT ![i].pc = IF TokenExpired(db_config.run, now)
                                            THEN "renew" ELSE "get_session"]
    /\ UNCHANGED <<now, tokens, db_config>>
    /\ CallersUnchanged

\* _validate_token_status, line 109: the renewal call of the thread
CallerRenew(i) ==
    /\ pc = "callers"
    /\ callers[i].pc = "renew"
    /\ callers' = [callers EXCEPT ![i].pc = "failed", ![i].renew_calls = @ + 1,
                                  ![i].err = <<"TypeError", "renew">>]
    /\ UNCHANGED <<now, tokens, db_config>>
    /\ CallersUnchanged

\* managed_session, lines 89-91: the session is obtained and the body runs
CallerSession(i) ==
    /\ pc = "callers"
    /\ callers[i].pc = "get_session"
    /\ callers' = [callers EXCEPT ![i].pc = IF _get_session(db_config.run) = NoErr
                                            THEN "body" ELSE "failed",
                                  ![i].err = _get_session(db_config.run)]
    /\ UNCHANGED <<now, tokens, db_config>>
    /\ CallersUnchanged

\* managed_session, lines 92-97: commit of the empty unit of work and close
CallerLeave(i) ==
    /\ pc = "callers"
    /\ callers[i].pc = "body"
    /\ callers' = [callers EXCEPT ![i].pc = "idle"]
    /\ UNCHANGED <<now, tokens, db_config>>
    /\ CallersUnchanged

NextCallers ==
    \/ CallersConnect
    \/ CallersTick
    \/ \E i \in Callers :
          \/ CallerEnter(i)
          \/ CallerValidate(i)
          \/ CallerRenew(i)
          \/ CallerSession(i)
          \/ CallerLeave(i)

SpecCallers == InitCallers /\ [][NextCallers]_vars

\* ------------------------------------- the functions of database_handler
\* src/database/database_handler.py: create_connection() returns an engine and
\* a session, close_connection(engine, session) closes the one and disposes
\* the other.  A client calls them in any order; legacy.calls records each
\* call, what the environment did in it and the exception the client observed.
LegacyCreateOutcomes == {"ok", "no_config", "login", "get_token", "parse_token", "engine"}

\* create_connection(): the pair it returns (<<>> when it raises) and the
\* exception.  The session is returned from inside "with Session() as
\* session", so it has been closed once when the caller receives it.
legacy_create_connection(out, origin) ==
    CASE out = "no_config" -> [pair |-> <<>>, err |-> <<"FileNotFoundError", origin>>]
      [] out = "login" -> [pair |-> <<>>, err |-> <<"CalledProcessError", origin>>]
      [] out = "get_token" -> [pair |-> <<>>, err |-> <<"CalledProcessError", origin>>]
      [] out = "parse_token" -> [pair |-> <<>>, err |-> <<"JSONDecodeError", origin>>]
      [] out = "engine" -> [pair |-> <<>>, err |-> <<"ArgumentError", origin>>]
      [] OTHER -> [pair |-> <<[engine |-> [dispose_calls |-> 0, disposed |-> FALSE],
                               session |-> [close_calls |-> 1]]>>,
                   err |-> NoErr]

\* what session.close() can do: return, raise an SQLAlchemyError, raise
\* another exception (engine.dispose(): EngineDisposeExcs)
SessionCloseExcs == {NoErr, <<"OperationalError", "session.close">>,
                     <<"AttributeError", "session.close">>}

\* close_connection with engine.dispose() after the try statement instead
\* of in its finally clause
legacy_close_connection_DisposeAfterTry(engine, session, close_exc, dispose_exc) ==
    LET s1 == [session EXCEPT !.close_calls = @ + 1]
        reached == close_exc = NoErr
        g1 == IF reached
              THEN [engine EXCEPT !.dispose_calls = @ + 1,
                                  !.disposed = IF dispose_exc = NoErr THEN TRUE ELSE @]
              ELSE engine
    IN  [engine |-> g1, session |-> s1,
         log |-> (IF IsSQLAlchemyError(close_exc) THEN <<"Error closing database session">>
                  ELSE <<>>)
                 \o (IF reached /\ IsSQLAlchemyError(dispose_exc)
                     THEN <<"Error disposing the database engine">> ELSE <<>>),
         err |-> IF reached /\ dispose_exc # NoErr THEN dispose_exc ELSE close_exc]

\* close_connection(engine, session): the two objects after the call, the
\* lines logged and the exception raised (NoErr on normal return).
\* close_exc is what session.close() raises, dispose_exc what
\* engine.dispose() raises.
legacy_close_connection(engine, session, close_exc, dispose_exc) ==
    LET \* try: session.close()
        s1 == [session EXCEPT !.close_calls = @ + 1]
        \* except SQLAlchemyError as e: LOGGER.error(...); raise e
        log1 == IF IsSQLAlchemyError(close_exc) THEN <<"Error closing database session">>
                ELSE <<>>
        \* finally: try: engine.dispose()
        g1 == [engine EXCEPT !.dispose_calls = @ + 1,
                             !.disposed = IF dispose_exc = NoErr THEN TRUE ELSE @]
        \* except SQLAlchemyError as e: LOGGER.error(...); raise e
        log2 == IF IsSQLAlchemyError(dispose_exc)
                THEN <<"Error disposing the database engine">> ELSE <<>>
    IN  [engine |-> g1, session |-> s1, log |-> log1 \o log2,
         \* an exception raised in the finally clause replaces the pending one
         err |-> IF dispose_exc # NoErr THEN dispose_exc ELSE close_exc]

InitLegacy ==
    /\ status_tbl = {}
    /\ pc = "legacy"
    /\ Fresh

LegacyUnchanged ==
    UNCHANGED <<store, now, tokens, pc, kw, db_config, sess, site, ms, err, job_err, observed,
                processed_images, image_files, loopv, trace, api_calls, workers, callers>>

\* engine, session = create_connection()
LegacyCreateConnection ==
    /\ pc = "legacy" /\ Len(legacy.calls) < MaxCalls
    /\ \E out \in LegacyCreateOutcomes :
         LET r == legacy_create_connection(out, "legacy")
         IN  legacy' = [engine |-> IF r.err = NoErr THEN <<r.pair[1].engine>> ELSE legacy.engine,
                        session |-> IF r.err = NoErr THEN <<r.pair[1].session>>
                                    ELSE legacy.session,
                        calls |-> Append(legacy.calls,
                                         [op |-> "create_connection", out |-> out,
                                          err |-> r.err])]
    /\ LegacyUnchanged

\* close_connection(engine, session)
LegacyCloseConnection ==
    /\ pc = "legacy" /\ Len(legacy.calls) < MaxCalls
    /\ legacy.engine # <<>>
    /\ \E close_exc \in SessionCloseExcs, dispose_exc \in EngineDisposeExcs :
         LET r == legacy_close_connection(legacy.engine[1], legacy.session[1],
                                          close_exc, dispose_exc)
         IN  legacy' = [engine |-> <<r.engine>>, session |-> <<r.session>>,
                        calls |-> Append(legacy.calls,
                                         [op |-> "close_connection",
                                          close_exc |-> close_exc,
                                          dispose_exc |-> dispose_exc,
                                          engine_before |-> legacy.engine[1],
                                          engine_after |-> r.engine,
                                          log |-> r.log, err |-> r.err])]
    /\ LegacyUnchanged

NextLegacy ==
    \/ LegacyCreateConnection
    \/ LegacyCloseConnection

SpecLegacy == InitLegacy /\ [][NextLegacy]_vars

\* =================================================================== claims
\* the with-block of managed_session in progress or last left has been left
Exited == sess.obtained /\ sess.closes > 0

\* C1: every exception e that escapes the job with reporting enabled is the
\* exception the caller observes, also when a step of the audit path fails.
C1_CallerObservesOriginalError ==
    (pc = "done" /\ kw.skip_evaluation /\ job_err # NoErr) => observed = job_err

\* C2: whatever the class of the exception that ends the with-block,
\* session.rollback() is called and that same exception leaves managed_session.
C2_AnyBodyErrorRolledBackAndReraised ==
    (Exited /\ sess.body_err # NoErr) => (sess.rollbacks = 1 /\ sess.exit_err = sess.body_err)

\* rows of a table that the with-block handed to the session
OpsOf(ops, tbl) == SelectSeq(ops, LAMBDA o : o.tbl = tbl)

\* every operation of the unit of work is visible in the tables
AllVisible(ops, before) ==
    /\ \A i \in 1..Len(ops) : ops[i].tbl = "status" => ops[i].row \in status_tbl
    /\ SubSeq(det_tbl, Len(before[2]) + 1, Len(det_tbl))
          = [i \in 1..Len(OpsOf(ops, "det")) |-> OpsOf(ops, "det")[i].row]
    /\ SubSeq(batch_tbl, Len(before[3]) + 1, Len(batch_tbl))
          = [i \in 1..Len(OpsOf(ops, "batch")) |-> OpsOf(ops, "batch")[i].row]

\* C3: a unit of work is all-or-nothing: after a with-block that raised or
\* whose commit failed the tables are what they were before it; after one
\* that returned normally and committed, all its rows are visible.
C3_UnitOfWorkAllOrNothing ==
    Exited =>
        IF sess.body_err # NoErr \/ ~sess.committed
        THEN store = sess.before
        ELSE AllVisible(sess.ops, sess.before)

\* a with-block that had handed rows to the session was ended by an exception
C3_Witness ==
    /\ Exited /\ sess.body_err # NoErr /\ Len(sess.ops) > 0
    /\ ~IsSQLAlchemyError(sess.body_err)

\* C4: every session obtained by managed_session is closed exactly once by the
\* time managed_session is left, and not before, on every exit path.
C4_SessionClosedExactlyOnce ==
    sess.obtained =>
        IF pc = "ms" /\ ms \in {"body", "commit", "rollback", "close"}
        THEN sess.closes = 0 /\ sess.open
        ELSE sess.closes = 1 /\ ~sess.open

\* managed_session was left through a failed rollback after a failed commit
C4_Witness ==
    /\ pc # "ms" /\ sess.obtained /\ sess.commits = 1 /\ ~sess.committed
    /\ sess.rollbacks = 1 /\ sess.exit_err = <<"OperationalError", "rollback">>

\* the wrapped run has ended with an exception e, reporting was enabled and
\* the database credentials were given
FailedReportingRun == pc = "done" /\ kw.skip_evaluation /\ kw.creds /\ job_err # NoErr

\* every row wrapper gave to session.add is the failure row of e
AuditRowsAreFailureRows ==
    \A i \in 1..Len(trace.audit_adds) :
        /\ trace.audit_adds[i].success = FALSE
        /\ trace.audit_adds[i].error_code = <<str(job_err)>>
        /\ trace.audit_adds[i].run_id = kw.run_id

\* C5: for every exception e escaping the job, with reporting and credentials,
\* exactly one BatchRunInformation row is given to session.add, and that row
\* has success=false and error_code = str(e).
C5_ExactlyOneFailureWrite ==
    FailedReportingRun => (Len(trace.audit_adds) = 1 /\ AuditRowsAreFailureRows)

\* C6: with reporting required and a database credential missing, the
\* configuration error is raised before the job has started any work, and it is
\* never what the caller gets in place of another error of the job.
C6_ConfigurationErrorFirst ==
    (kw.skip_evaluation /\ CredentialsMissing(kw)) =>
        /\ ErrClass(err) = "CredentialsValueError" => ~trace.work
        /\ (pc = "done" /\ ErrClass(observed) = "CredentialsValueError")
              => ErrClass(job_err) \in {"none", "CredentialsValueError"}

\* C7: when managed_session is entered with an expired token, exactly one
\* renewal call is made and it returns normally (and only then is the session
\* obtained).
C7_ExpiredTokenRenewedOnce ==
    trace.entry.expired => (trace.entry.renew_calls = 1 /\ trace.entry.renew_ok = 1)

\* rows of the status table with the key of the path
RowsOf(customer, path) ==
    {r \in status_tbl : Key(r) = <<customer, extract_upload_date(path)[2],
                                   extract_upload_date(path)[1]>>}

\* C8: the claim step is an upsert: when the claim loop has handed every
\* image to the session and the database is up, the step succeeds, whether or
\* not rows existed, and every image has exactly one row, in progress.
C8_ClaimIsUpsert ==
    (sess.site = "claim" /\ Exited /\ sess.body_err = NoErr
        /\ ErrClass(sess.exit_err) # "OperationalError") =>
        /\ sess.exit_err = NoErr
        /\ \A p \in Range(image_files) :
              /\ Cardinality(RowsOf(kw.customer_name, p)) = 1
              /\ \A r \in RowsOf(kw.customer_name, p) : r.status = "inprogress"

\* the path whose completion block was left last
LastCompleted ==
    <<Head(sess.ops).row.date, Head(sess.ops).row.filename>>

\* a completion block (lines 470-495 or 538-542) handed both rows to the
\* session and was left while the database was up
CompletionDone ==
    /\ sess.site \in {"pos", "neg"} /\ Exited /\ sess.body_err = NoErr
    /\ ErrClass(sess.exit_err) # "OperationalError"

\* C9: after claim, a completion succeeds and leaves exactly one status row
\* for the key, processed; a completion of a key that is already processed
\* leaves the status table as it was.
C9_CompleteIdempotent ==
    CompletionDone =>
        /\ sess.exit_err = NoErr
        /\ Cardinality(RowsOf(kw.customer_name, LastCompleted)) = 1
        /\ \A r \in RowsOf(kw.customer_name, LastCompleted) : r.status = "processed"
        /\ ProcessedRow(kw.customer_name, LastCompleted) \in sess.before[1]
              => status_tbl = sess.before[1]

\* an image claimed by the run was completed a second time
C9_Witness ==
    /\ CompletionDone /\ sess.site = "pos" /\ sess.committed
    /\ LastCompleted \in trace.claimed
    /\ ProcessedRow(kw.customer_name, LastCompleted) \in sess.before[1]
    /\ Len(det_tbl) = 2

\* detection rows of the run for the path
DetRowsOf(path) ==
    SelectSeq(det_tbl, LAMBDA r : /\ r.customer = kw.customer_name
                                  /\ r.date = path[1] /\ r.filename = path[2]
                                  /\ r.run_id = kw.run_id)

\* C10: for every image handled by a run with reporting: without detection
\* exactly one row, has_detection=false and all geometry null; with N >= 1
\* detections exactly N rows, all has_detection=true.
C10_DetectionRowsMatchInference ==
    kw.skip_evaluation =>
        \A i \in 1..Len(trace.inferred) :
            LET path == trace.inferred[i][1]
                n == Len(trace.inferred[i][2])
                rows == DetRowsOf(path)
            IN  path \in trace.handled =>
                  IF n = 0
                  THEN rows = <<NegativeRow(kw.customer_name, path, kw.run_id)>>
                  ELSE /\ Len(rows) = n
                       /\ \A j \in 1..Len(rows) : rows[j].has_detection

\* the wrapped run returned its result to the caller of an invocation that
\* had reporting enabled: the success row has been committed
ReportingRunSucceeded == pc = "done" /\ observed = Result /\ kw.skip_evaluation

\* C11: when a run with reporting terminates normally, every image it claimed
\* has exactly one status row and that row is processed; none is left in
\* progress, whatever the detections and the other options of the run.
C11_SuccessLeavesNoImageInProgress ==
    ReportingRunSucceeded =>
        \A p \in trace.claimed :
            /\ RowsOf(kw.customer_name, p) # {}
            /\ \A r \in RowsOf(kw.customer_name, p) : r.status = "processed"

\* the tables as the completed-work query saw them
QueriedTable == sess.before[1]

\* the query block was left normally and the next session is not yet obtained
QueryReturned ==
    /\ sess.site = "query" /\ sess.obtained /\ sess.body_err = NoErr
    /\ ~(pc = "ms" /\ ms = "body")

\* C12: the completed-work query returns exactly the (upload_date, filename)
\* pairs of the rows of the given customer whose status is processed: it
\* returns no pair of another customer, of a row in progress or of an image
\* without row, and it omits none.
C12_QueryReturnsExactlyProcessedOfCustomer ==
    QueryReturned =>
        \A p \in Range(InputFolder) :
            p \in processed_images
                <=> [customer |-> kw.customer_name, date |-> p[1], filename |-> p[2],
                     status |-> "processed"] \in QueriedTable

\* the query ran on a table holding a processed row of the customer, a row in
\* progress of the customer and a processed row of another customer
C12_Witness ==
    /\ QueryReturned
    /\ processed_images = {<<1, "img2.jpg">>}
    /\ [customer |-> "acme", date |-> 1, filename |-> "img1.jpg", status |-> "inprogress"]
          \in QueriedTable
    /\ [customer |-> "other", date |-> 1, filename |-> "img1.jpg", status |-> "processed"]
          \in QueriedTable

\* the invocation is over and no exception left the job
JobReturnedNormally == pc = "done" /\ job_err = NoErr

\* C13: when the job returns normally, wrapper returns the job's result and
\* performs no database operation itself: it creates no connection, opens no
\* session and adds no row; the only row of the run is the success row of run.
C13_WrapperIdleOnNormalReturn ==
    JobReturnedNormally =>
        /\ observed = Result
        /\ db_config.wrapper = NewDBConfig
        /\ sess.site # "audit"
        /\ trace.audit_adds = <<>>
        /\ batch_tbl = IF kw.skip_evaluation
                       THEN <<SuccessRow(kw, batch_tbl[1].end_time)>> ELSE <<>>

\* a run with reporting returned normally after it had written its success row
C13_Witness ==
    /\ JobReturnedNormally /\ kw.skip_evaluation /\ observed = Result
    /\ Len(batch_tbl) = 1 /\ batch_tbl[1].success
    /\ sess.site = "success" /\ sess.committed

\* the invocation is over, reporting was not enabled and an exception e left the job
FailedSilentRun == pc = "done" /\ ~kw.skip_evaluation /\ job_err # NoErr

\* C14: without reporting, an exception e of the job makes wrapper create no
\* connection and write no row, and e itself is what the caller gets.
C14_NoReportingNoAudit ==
    FailedSilentRun =>
        /\ observed = job_err
        /\ db_config.wrapper = NewDBConfig
        /\ sess.site # "audit"
        /\ trace.audit_adds = <<>>
        /\ store = <<status_tbl, <<>>, <<>>>>
        /\ tokens = 0

\* inference failed in a run without reporting
C14_Witness ==
    /\ FailedSilentRun /\ observed = <<"InferenceError", "run">>
    /\ image_files # <<>>

\* C15: an invocation with reporting has one terminal outcome: the
\* batch-run table never holds both a success row and a failure row of its
\* run_id, and never more than one row of it.
C15_OneTerminalOutcome ==
    kw.skip_evaluation =>
        LET rows == SelectSeq(batch_tbl, LAMBDA r : r.run_id = kw.run_id)
        IN  /\ Len(rows) <= 1
            /\ ~(\E i, j \in 1..Len(rows) : rows[i].success /\ ~rows[j].success)

\* the commit of the success row failed and wrapper wrote the failure row
C15_Witness ==
    /\ pc = "done" /\ kw.skip_evaluation
    /\ image_files # <<>> /\ trace.handled = Range(image_files)
    /\ job_err = <<"OperationalError", "commit">>
    /\ Len(batch_tbl) = 1 /\ ~batch_tbl[1].success

\* the exception close_connection handles, logs and raises again
DefinedCloseError(e) == IsSQLAlchemyError(e)

\* the object is what it was, but for the disposal of its pool
SameButDisposed(before, after) ==
    /\ after.session_maker = before.session_maker
    /\ after.access_token = before.access_token
    /\ after.token_expiration_time = before.token_expiration_time
    /\ (before.engine = <<>>) = (after.engine = <<>>)
    /\ before.engine # <<>> => after.engine[1].token = before.engine[1].token

\* C16: every call of close_connection, a second one and one made before
\* create_connection included, either succeeds or raises the error
\* close_connection defines (the SQLAlchemyError it logs), and leaves the
\* engine and the rest of the object as they were.
C16_CloseConnectionIdempotentOrDefinedError ==
    \A i \in 1..Len(api_calls) :
        api_calls[i].op = "close_connection" =>
            /\ api_calls[i].err = NoErr \/ DefinedCloseError(api_calls[i].err)
            /\ SameButDisposed(api_calls[i].before, api_calls[i].after)

\* C17: an image with N >= 1 detections is marked processed only after all N
\* detection rows of the run have been recorded: in no committed state is the
\* image processed while some of its detections are unrecorded.
C17_ProcessedOnlyAfterAllDetections ==
    kw.skip_evaluation =>
        \A i \in 1..Len(trace.inferred) :
            LET path == trace.inferred[i][1]
                n == Len(trace.inferred[i][2])
            IN  (n >= 1 /\ ProcessedRow(kw.customer_name, path) \in status_tbl)
                    => Len(DetRowsOf(path)) = n

\* C18: on every exit path of the invocation each engine that was created, the
\* engine of run and the engine wrapper creates for the failure row, has been
\* disposed exactly once.
C18_EnginesDisposedExactlyOnce ==
    pc = "done" =>
        \A c \in {"run", "wrapper"} :
            db_config[c].engine # <<>> => db_config[c].engine[1].disposes = 1

\* the step deletes no status row, creates rows only in progress and leaves
\* every processed row processed
StatusMovesForward ==
    /\ \A r \in status_tbl :
          \E q \in status_tbl' :
              /\ Key(q) = Key(r)
              /\ r.status = "processed" => q.status = "processed"
    /\ \A q \in status_tbl' :
          (\A r \in status_tbl : Key(r) # Key(q)) => q.status = "inprogress"

\* C19: under any sequence of runs by one or several workers, a status row is
\* never deleted and its status only moves forward: absent, in progress,
\* processed; a processed row stays processed.
C19_StatusOnlyMovesForward == [][StatusMovesForward]_vars

\* a worker tried to claim an image that another run had marked processed
\* after the worker's query
C19_Witness ==
    \E i \in Workers :
        /\ workers[i].pc = "failed" /\ workers[i].err = <<"IntegrityError", "commit">>
        /\ \E p \in Range(workers[i].image_files) :
              ProcessedRow(WorkerCustomer, p) \in status_tbl

\* the claim block of the worker has been left, and when its body ran no image
\* of the worker had a status row: any conflict comes from a concurrent claim
ClaimedConcurrently(i) ==
    /\ workers[i].pc \in {"work", "complete_commit", "failed"}
    /\ workers[i].image_files # <<>>
    /\ \A p \in Range(workers[i].image_files) :
          \A r \in workers[i].seen : Key(r) # Key(ClaimRow(WorkerCustomer, p))

\* C20: when two workers claim the same key concurrently, both claims succeed
\* and the store holds exactly one row for the key.
C20_ConcurrentClaimsBothSucceed ==
    \A i \in Workers :
        ClaimedConcurrently(i) =>
            /\ workers[i].err # <<"IntegrityError", "commit">>
            /\ \A p \in Range(workers[i].image_files) :
                  Cardinality({r \in status_tbl : Key(r) = Key(ClaimRow(WorkerCustomer, p))}) = 1

\* the claim block of the run was left; when it was entered some image of the
\* run had a row in progress, left by a run that crashed before completing it
ClaimOverLeftovers ==
    /\ sess.site = "claim" /\ Exited
    /\ \E p \in Range(image_files) : ClaimRow(kw.customer_name, p) \in sess.before[1]

\* C21: rows in progress left by a crashed run never make a later run of the
\* same customer over the same images fail: while the database is up and every
\* image can be handed to the session, the later run claims the images again.
C21_LeftoverRowsDoNotFailLaterRun ==
    (ClaimOverLeftovers /\ sess.body_err = NoErr
        /\ ErrClass(sess.exit_err) # "OperationalError") =>
        /\ sess.exit_err = NoErr
        /\ \A p \in Range(image_files) : ClaimRow(kw.customer_name, p) \in status_tbl

\* the rows the claim loop builds for the images of the run
ClaimRows == {ClaimRow(kw.customer_name, p) : p \in Range(image_files)}

\* C22: the claim of a run is atomic over its image set: once the claim block
\* is left, either it was committed and every image of the run has its row in
\* progress, or the status table is what it was before the block: no partial
\* set of claims is committed.
C22_ClaimAllOrNone ==
    (sess.site = "claim" /\ Exited) =>
        IF sess.committed
        THEN status_tbl = sess.before[1] \cup ClaimRows
        ELSE status_tbl = sess.before[1]

\* the claim block of a run over two images was ended by an exception after
\* the first image had been handed to the session
C22_Witness ==
    /\ sess.site = "claim" /\ Exited
    /\ Len(image_files) = 2 /\ Len(sess.ops) = 1
    /\ sess.body_err = <<"ValueError", "extract_upload_date">>

\* C23: in every committed state an image that the run has set to processed
\* has at least one detection row, positive or negative, of the run: the
\* status is never committed alone.
C23_ProcessedHasDetectionRow ==
    \A p \in trace.claimed :
        ProcessedRow(kw.customer_name, p) \in status_tbl => Len(DetRowsOf(p)) >= 1

\* the run has completed an image without detection
C23_Witness ==
    \E p \in trace.claimed :
        /\ ProcessedRow(kw.customer_name, p) \in status_tbl
        /\ DetRowsOf(p) = <<NegativeRow(kw.customer_name, p, kw.run_id)>>

\* managed_session has been entered at the current site and the clock has not
\* moved since
EntryObserved == site # "none" /\ ~(pc = "ms" /\ ms = "enter")

\* the object on which managed_session was entered last
EnteredCfg == db_config[CfgOf(site)]

\* C24: managed_session triggers a renewal if and only if
\* now >= expiry - margin, the instant now = expiry - margin included
\* (token_expiration_time holds expiry - margin).
C24_RenewalIffNotBeforeMargin ==
    EntryObserved =>
        (trace.entry.renew_calls = 1 <=> now >= EnteredCfg.token_expiration_time[1])

\* a step that enters managed_session with an expired token whose renewal fails
RenewalFails ==
    /\ pc = "ms" /\ ms = "enter" /\ now' = now
    /\ db_config[CfgOf(site)].token_expiration_time # <<>>
    /\ TokenExpired(db_config[CfgOf(site)], now)

\* C25: when the renewal triggered by managed_session fails, the unit of work
\* is aborted: no session is obtained, the body does not run, nothing is
\* committed and the error of the renewal leaves managed_session.
C25_RenewalFailureAbortsUnitOfWork ==
    [][RenewalFails =>
          /\ sess' = sess
          /\ store' = store
          /\ pc' # "ms"
          /\ err' = <<"TypeError", "renew">>]_vars

\* the renewal failed at a completion block, after the run had claimed its images
C25_Witness ==
    /\ trace.entry.expired /\ trace.entry.renew_ok = 0
    /\ pc = "catch" /\ err = <<"TypeError", "renew">>
    /\ site \in {"pos", "neg"} /\ trace.claimed # {}

\* the BatchRunInformation rows committed, handed to session.add by wrapper,
\* or handed to the session in progress
BatchRowsWritten ==
    Range(batch_tbl) \cup Range(trace.audit_adds)
        \cup {o.row : o \in {x \in Range(sess.ops) : x.tbl = "batch"}}

\* C27: in every BatchRunInformation row written by run or by wrapper,
\* error_code is null if and only if success is true.
C27_ErrorCodeNullIffSuccess ==
    \A r \in BatchRowsWritten : (r.error_code = <<>>) <=> r.success

\* the failure row of an inference error has been committed
C27_Witness ==
    /\ Len(batch_tbl) = 1 /\ ~batch_tbl[1].success
    /\ batch_tbl[1].error_code = <<str(<<"InferenceError", "run">>)>>

\* a session is in use between its creation and the finally clause
InUnitOfWork == pc = "ms" /\ ms \in {"body", "commit", "rollback", "close"}

\* C29: at most one session is open at any time: a unit of work is entered
\* only when no session is open, the session it obtains is fresh, and it is
\* the only open one until it is closed.
C29_AtMostOneOpenSession ==
    /\ trace.open = (IF InUnitOfWork THEN 1 ELSE 0)
    /\ InUnitOfWork => sess.open /\ sess.closes = 0
    /\ (pc = "ms" /\ ms = "body") =>
          sess.pending = <<>> /\ sess.ops = <<>> /\ sess.commits = 0 /\ sess.rollbacks = 0

\* wrapper is in its unit of work after a block of run was left by an
\* exception that skipped commit and rollback
C29_Witness ==
    /\ pc = "ms" /\ ms = "body" /\ sess.site = "audit" /\ trace.open = 1
    /\ job_err = <<"ValueError", "extract_upload_date">>

\* the i-th call of the client is a create_connection in which the
\* acquisition of the token or the creation of the engine failed
FailedCreateConnection(i) ==
    api_calls[i].op = "create_connection" /\ api_calls[i].out # "ok"

\* C28 as stated: create_connection makes one attempt: when the acquisition
\* of the token or the creation of the engine fails, the failure reaches the
\* caller and the object is left without a usable session maker.
C28_FailureLeavesNoSessionMaker ==
    \A i \in 1..Len(api_calls) :
        FailedCreateConnection(i) =>
            /\ api_calls[i].err # NoErr
            /\ api_calls[i].after.session_maker = <<>>

\* C28 amended: create_connection makes one attempt: when the acquisition of
\* the token or the creation of the engine fails, the failure reaches the
\* caller and the call leaves the engine and the session maker of the object
\* as they were: an object that had no session maker still has none, an object
\* that was connected keeps the session maker of its earlier call.
C28_CreateConnectionSingleAttempt ==
    \A i \in 1..Len(api_calls) :
        FailedCreateConnection(i) =>
            /\ api_calls[i].err # NoErr
            /\ api_calls[i].after.engine = api_calls[i].before.engine
            /\ api_calls[i].after.session_maker = api_calls[i].before.session_maker

\* create_engine failed on a new object, after the token had been acquired,
\* and left it without a session maker; a second call connected the object;
\* a third call failed and the object kept the session maker of the second
C28_Witness ==
    /\ Len(api_calls) = 3
    /\ api_calls[1].op = "create_connection" /\ api_calls[1].out = "engine"
    /\ api_calls[1].err = <<"ArgumentError", "api">>
    /\ api_calls[1].after.access_token # <<>> /\ api_calls[1].after.session_maker = <<>>
    /\ api_calls[2].op = "create_connection" /\ api_calls[2].err = NoErr
    /\ FailedCreateConnection(3) /\ api_calls[3].err # NoErr
    /\ db_config.run.session_maker = api_calls[2].after.session_maker
    /\ db_config.run.session_maker # <<>>

\* C30: managed_session entered on an object on which create_connection was
\* never called raises the RuntimeError of _get_session and obtains no session.
C30_NoConnectionRuntimeError ==
    \A i \in 1..Len(api_calls) :
        (/\ api_calls[i].op = "managed_session"
         /\ \A j \in 1..(i - 1) : api_calls[j].op # "create_connection") =>
            /\ api_calls[i].err = <<"RuntimeError", "_get_session">>
            /\ api_calls[i].sessions = 0

\* the threads whose renewal call is in progress
RenewalsInFlight == {i \in Callers : callers[i].pc = "renew"}

\* the renewal calls the threads have made for the expiry of the shared token
RECURSIVE RenewalCalls(_)
RenewalCalls(S) ==
    IF S = {} THEN 0
    ELSE LET i == CHOOSE x \in S : TRUE
         IN  callers[i].renew_calls + RenewalCalls(S \ {i})

\* C26: when two threads sharing one DBConfigSQLAlchemy enter managed_session
\* while the token is invalid, at most one renewal is in flight at any time
\* and only one renewal is issued for that expiry.
C26_SingleRenewalInFlight ==
    /\ Cardinality(RenewalsInFlight) <= 1
    /\ RenewalCalls(Callers) + Cardinality(RenewalsInFlight) <= 1

\* the call acquired a token: _get_db_access_token returned normally in it
TokenAcquired(c) == c.op = "create_connection" /\ c.out \in {"ok", "engine"}

\* the calls before the j-th in which a token was acquired
AcquisitionsBefore(j) == {i \in 1..(j - 1) : TokenAcquired(api_calls[i])}

\* the last of them
LastAcquisition(j) ==
    CHOOSE i \in AcquisitionsBefore(j) : \A k \in AcquisitionsBefore(j) : k <= i

\* C31: once a token has been acquired anew, every session opened afterwards
\* authenticates with that token: the session maker that hands out the session
\* is bound to the token of the last successful acquisition, never to the one
\* the engine was first created with.
C31_SessionsUseRenewedToken ==
    \A j \in 1..Len(api_calls) :
        (/\ api_calls[j].op = "managed_session"
         /\ api_calls[j].sessions = 1
         /\ AcquisitionsBefore(j) # {}) =>
            api_calls[j].before.session_maker = api_calls[LastAcquisition(j)].after.access_token

\* C32: the BatchRunInformation row of the invocation (the success row of run
\* or the failure row of wrapper) is its last write: once the row is in the
\* table, no step of the invocation changes the status rows, the detection
\* rows or the audit rows.
C32_AuditRowIsLastWrite ==
    [][batch_tbl # <<>> => store' = store]_vars

\* a run that had claimed its images failed, wrapper wrote the failure row and
\* re-raised
C32_Witness ==
    /\ pc = "done" /\ observed = job_err /\ job_err # NoErr
    /\ Len(batch_tbl) = 1 /\ ~batch_tbl[1].success
    /\ trace.claimed # {}
    /\ sess.site = "audit" /\ sess.committed /\ ~sess.open

\* the calls of close_connection(engine, session) the client has made
LegacyCloses == {i \in 1..Len(legacy.calls) : legacy.calls[i].op = "close_connection"}

\* C33: every call of close_connection(engine, session) calls
\* engine.dispose() once, also when session.close() raised, and when
\* session.close() raised and engine.dispose() did not, the caller observes
\* the exception of session.close().
C33_DisposeAlwaysAttempted ==
    \A i \in LegacyCloses :
        LET c == legacy.calls[i]
        IN  /\ c.engine_after.dispose_calls = c.engine_before.dispose_calls + 1
            /\ (c.close_exc # NoErr /\ c.dispose_exc = NoErr) =>
                  /\ c.err = c.close_exc
                  /\ c.engine_after.disposed

\* session.close() raised an SQLAlchemyError, the engine was disposed all the
\* same and the caller observed the close error
C33_Witness ==
    \E i \in LegacyCloses :
        LET c == legacy.calls[i]
        IN  /\ c.close_exc = <<"OperationalError", "session.close">>
            /\ c.dispose_exc = NoErr
            /\ c.engine_after.dispose_calls = c.engine_before.dispose_calls + 1
            /\ c.engine_after.disposed
            /\ c.err = <<"OperationalError", "session.close">>
            /\ c.log = <<"Error closing database session">>

\* the call ran _get_db_access_token and it raised
AcquisitionFailed(c) ==
    c.op = "create_connection" /\ c.out \in AzOutcomes \ {"ok"}

\* C34: _get_db_access_token updates the cached token and its expiry
\* together: when it fails at any step (login, token command, parsing of the
\* token or of its expiry), access_token and token_expiration_time both keep
\* the values they had before the call.
C34_TokenAndExpiryUpdatedTogether ==
    \A i \in 1..Len(api_calls) :
        AcquisitionFailed(api_calls[i]) =>
            /\ api_calls[i].err # NoErr
            /\ api_calls[i].after.access_token = api_calls[i].before.access_token
            /\ api_calls[i].after.token_expiration_time
                  = api_calls[i].before.token_expiration_time
====
